---- MODULE Spec2Model ----
(***************************************************************************)
(* A model of package kway: the k-way merge of sorted iter.Seq inputs      *)
(* (Merge, Merge2), the tagging layer (wrapSeq, wrapCompare, ...) and the  *)
(* frontier heap engine (mergeState and its method all), which drives      *)
(* container/heap over mergeState.items.                                   *)
(*                                                                         *)
(* Source indices are 0-based as in Go; TLA+ sequences are 1-based, so     *)
(* source i is seqs[i + 1] and heap slot j is items[j + 1].                *)
(***************************************************************************)
EXTENDS Integers, Sequences, FiniteSets, Bags, TLC

\* ------------------------------------------------------------------ bounds
\* The largest number of sources passed to one call.
MaxSeqs == 3
\* The largest total number of elements over all sources of one call.
MaxTotal == 4
\* Keys (the field the caller's comparator orders by) range over 0..MaxKey.
MaxKey == 1
\* The most elements a source that never exhausts is asked for in one run.
MaxPulls == 3

Keys == 0..MaxKey

VARIABLES
    api,        \* "Merge" or "Merge2": the entry point called
    cmpNil,     \* TRUE iff the comparator argument is nil
    seqs,       \* the sources, in argument order: [nil, endless, elems]
    pc,         \* where the call / the iteration stands
    ret,        \* what the call returned: "none", "emptySeq", "mergeSeq"
    items,      \* mergeState.items, the heap array
    pulls,      \* the local pulls of all: the indices whose next is recorded
    opened,     \* the indices iter.Pull was called for
    stops,      \* the indices whose stop ran, in the order the stops ran
    nexts,      \* per source: how often its next was called
    pos,        \* per source: how many elements it has produced
    initI,      \* the index of the first loop of all
    cur,        \* the local v of all: the element popped last
    emitted,    \* the tagged elements all has yielded, in order
    out,        \* the values the consumer has received, in order
    stopped,    \* TRUE iff the consumer's yield returned false
    panic,      \* the value of the panic, "" while there is none
    log,        \* the calls of next and of yield so far, in order
    earlier     \* how the iteration before this one ended, "none" if none

vars == <<api, cmpNil, seqs, pc, ret, items, pulls, opened, stops, nexts, pos,
          initI, cur, emitted, out, stopped, panic, log, earlier>>

\* ------------------------------------------------------------ the inputs
\* A nil iter.Seq.
NilSeq == [nil |-> TRUE, endless |-> FALSE, elems |-> <<>>]

\* A sequence that yields the elements es and then returns; with endless it
\* never returns: after es it yields the last of es again and again.
SliceSeq(es, endless) == [nil |-> FALSE, endless |-> endless, elems |-> es]

\* A value of a source at argument position i (0-based): the key the
\* comparator reads and the id of the sequence it came from, as the
\* stableValue of the tests.
Value(k, i) == [value |-> k, seqID |-> i + 1]

\* cmp.Compare on integers.
Compare(x, y) == IF x < y THEN -1 ELSE IF x > y THEN 1 ELSE 0

\* The caller's comparator of Merge: cmp.Compare on the value field.
cmpFunc(a, b) == Compare(a.value, b.value)

\* The caller's comparator of Merge2 on pairs (a1, a2), (b1, b2): it reads
\* the first components only.
cmpFunc2(a1, a2, b1, b2) == Compare(a1, b1)

\* The sequences of keys of length n that are sorted per cmp.Compare.
SortedKeys(n) ==
    {ks \in [1..n -> Keys] : \A p \in 1..(n - 1) : Compare(ks[p], ks[p + 1]) <= 0}

\* The sources that may stand at position i with at most budget elements:
\* the nil sequence and every sorted sequence of values.
SourcesAt(i, budget) ==
    {NilSeq} \cup
    {SliceSeq([p \in 1..Len(ks) |-> Value(ks[p], i)], FALSE) :
        ks \in UNION {SortedKeys(m) : m \in 0..budget}}

RECURSIVE TotalLen(_)
\* The number of elements of all sources of ss together.
TotalLen(ss) ==
    IF ss = <<>> THEN 0 ELSE Len(Head(ss).elems) + TotalLen(Tail(ss))

RECURSIVE Inputs(_, _)
\* The argument lists of n sources with at most budget elements in total.
Inputs(n, budget) ==
    IF n = 0 THEN {<<>>}
    ELSE UNION {{Append(rest, s) : s \in SourcesAt(n - 1, budget - TotalLen(rest))} :
                    rest \in Inputs(n - 1, budget)}

\* The sources that may stand at position i with at most budget elements,
\* sorted or not.
AnySourcesAt(i, budget) ==
    {NilSeq} \cup
    {SliceSeq([p \in 1..Len(ks) |-> Value(ks[p], i)], FALSE) :
        ks \in UNION {[1..m -> Keys] : m \in 0..budget}}

RECURSIVE AnyInputs(_, _)
\* The argument lists of n sources, sorted or not, with at most budget
\* elements in total.
AnyInputs(n, budget) ==
    IF n = 0 THEN {<<>>}
    ELSE UNION {{Append(rest, s) : s \in AnySourcesAt(n - 1, budget - TotalLen(rest))} :
                    rest \in AnyInputs(n - 1, budget)}

\* The source indices of an argument list.
Indices(ss) == 0..(Len(ss) - 1)

\* ------------------------------------------------------- the tagging layer
\* wrappedSeqValue.index and wrappedSeq2Value.index.
index(x) == x.i

\* wrapSeq that tags an element with its position in seq, not with i.
wrapSeqTagsPosition(i, s) == [p \in 1..Len(s) |-> [i |-> p - 1, v |-> s[p]]]

\* wrapSeq(i, seq): the elements seq yields, each tagged with i.
wrapSeq(i, s) == [p \in 1..Len(s) |-> [i |-> i, v |-> s[p]]]

\* wrapSeq2(i, seq): seq yields the pairs (value, seqID); each is tagged with i.
wrapSeq2(i, s) == [p \in 1..Len(s) |-> [i |-> i, v1 |-> s[p].value, v2 |-> s[p].seqID]]

\* wrapCompare that settles what the comparator calls equal by the index.
wrapCompareThenIndex(a, b) ==
    IF cmpFunc(a.v, b.v) # 0 THEN cmpFunc(a.v, b.v) ELSE Compare(a.i, b.i)

\* wrapCompare(cmpFunc): the comparator on tagged elements.
wrapCompare(a, b) == cmpFunc(a.v, b.v)

\* wrapCompare2(cmpFunc2): the comparator on tagged pairs.
wrapCompare2(a, b) == cmpFunc2(a.v1, a.v2, b.v1, b.v2)

\* wrappedSeqs with the nil sequences left out of the count: a sequence is
\* tagged with the number of non-nil sequences before it.
wrappedSeqsRenumbered(a, ss) ==
    [n \in 1..Len(ss) |->
        LET k == Cardinality({m \in 1..(n - 1) : ~ss[m].nil})
        IN  IF ss[n].nil THEN NilSeq
            ELSE SliceSeq(IF a = "Merge" THEN wrapSeq(k, ss[n].elems)
                          ELSE wrapSeq2(k, ss[n].elems),
                          ss[n].endless)]

\* The wrappedSeqs of Merge / Merge2: entry i is nil iff seqs[i] is nil.
wrappedSeqs(a, ss) ==
    [n \in 1..Len(ss) |->
        IF ss[n].nil THEN NilSeq
        ELSE SliceSeq(IF a = "Merge" THEN wrapSeq(n - 1, ss[n].elems)
                      ELSE wrapSeq2(n - 1, ss[n].elems),
                      ss[n].endless)]

\* ok set for every sequence, nil or not.
anySeqByLen(ss) == Len(ss) > 0

\* The ok of Merge / Merge2: some sequence is not nil.
anySeq(ss) == \E n \in 1..Len(ss) : ~ss[n].nil

\* unwrap with the two components of a pair handed over the wrong way round.
unwrapSwapped(a, x) == IF a = "Merge" THEN x.v ELSE <<x.v2, x.v1>>

\* What mergeSeq / mergeSeq2 hand to the consumer for the tagged element x.
unwrap(a, x) == IF a = "Merge" THEN x.v ELSE <<x.v1, x.v2>>

\* ---------------------------------------------- mergeState as heap.Interface
\* mergeState.cmp, as Merge / Merge2 set it.
stateCmp(a, x, y) == IF a = "Merge" THEN wrapCompare(x, y) ELSE wrapCompare2(x, y)

\* Less with the sign of the comparison read the wrong way round.
LessWrongSign(a, its, i, j) ==
    LET v == stateCmp(a, its[i + 1], its[j + 1])
    IN  IF v # 0 THEN v > 0
        ELSE index(its[i + 1]) < index(its[j + 1])

\* Less that orders by source index first and asks the comparator last.
LessIndexFirst(a, its, i, j) ==
    IF index(its[i + 1]) # index(its[j + 1])
    THEN index(its[i + 1]) < index(its[j + 1])
    ELSE stateCmp(a, its[i + 1], its[j + 1]) < 0

\* Less without the fall back to the source index.
LessNoTieBreak(a, its, i, j) == stateCmp(a, its[i + 1], its[j + 1]) < 0

\* mergeState.Less on the slots i, j of its.
Less(a, its, i, j) ==
    LET v == stateCmp(a, its[i + 1], its[j + 1])
    IN  IF v # 0 THEN v < 0
        ELSE index(its[i + 1]) < index(its[j + 1])

\* mergeState.Swap.
Swap(its, i, j) == [its EXCEPT ![i + 1] = its[j + 1], ![j + 1] = its[i + 1]]

\* Push with the result of append dropped.
PushDiscards(its, v) == its

\* mergeState.Push.
Push(its, v) == Append(its, v)

\* The zero value *new(T) of the pointer type T of the items: nil.
NilItem == [nil |-> TRUE]

\* Pop that leaves the slice as long as it was.
PopKeeps(its) == [item |-> its[Len(its)], old |-> its, items |-> its]

\* Pop that leaves the item in the slot it vacates.
PopNoClear(its) ==
    [item |-> its[Len(its)], old |-> its, items |-> SubSeq(its, 1, Len(its) - 1)]

\* mergeState.Pop: the last item, the array old with the slot of that item
\* cleared, and the items without it, old[:i].
Pop(its) ==
    LET i == Len(its) - 1
        old == [its EXCEPT ![i + 1] = NilItem]
    IN  [item |-> its[i + 1], old |-> old, items |-> SubSeq(old, 1, i)]

\* Go's integer division, which truncates towards zero.
GoDiv(x, y) == IF x >= 0 THEN x \div y ELSE -((-x) \div y)

RECURSIVE up(_, _, _)
\* container/heap.up.
up(a, its, j) ==
    LET i == GoDiv(j - 1, 2)
    IN  IF i = j \/ ~Less(a, its, j, i) THEN its
        ELSE up(a, Swap(its, i, j), i)

RECURSIVE downLeftOnly(_, _, _, _)
\* down that never looks at the right child.
downLeftOnly(a, its, i, n) ==
    LET j1 == 2 * i + 1
    IN  IF j1 >= n THEN its
        ELSE IF ~Less(a, its, j1, i) THEN its
        ELSE downLeftOnly(a, Swap(its, i, j1), j1, n)

RECURSIVE down(_, _, _, _)
\* container/heap.down on the first n slots, from slot i.
down(a, its, i, n) ==
    LET j1 == 2 * i + 1
        j  == IF j1 + 1 < n /\ Less(a, its, j1 + 1, j1) THEN j1 + 1 ELSE j1
    IN  IF j1 >= n THEN its
        ELSE IF ~Less(a, its, j, i) THEN its
        ELSE down(a, Swap(its, i, j), j, n)

RECURSIVE heapInitFrom(_, _, _, _)
\* The loop of container/heap.Init: down(i, n) for i, i - 1, ..., 0.
heapInitFrom(a, its, i, n) ==
    IF i < 0 THEN its ELSE heapInitFrom(a, down(a, its, i, n), i - 1, n)

\* Init that leaves the items in the order the first loop put them in.
heapInitNone(a, its) == its

\* container/heap.Init.
heapInit(a, its) == heapInitFrom(a, its, GoDiv(Len(its), 2) - 1, Len(its))

\* container/heap.Pop: swap the root to the end, sift down, then Pop.
heapPop(a, its) ==
    LET n == Len(its) - 1
    IN  Pop(down(a, Swap(its, 0, n), 0, n))

\* Push that writes over the root where there is one, and sifts nothing.
heapPushOverRoot(a, its, x) == IF its = <<>> THEN <<x>> ELSE [its EXCEPT ![1] = x]

\* container/heap.Push: Push, then sift up.
heapPush(a, its, x) == up(a, Push(its, x), Len(its))

\* ------------------------------------------- the calls of the comparator
\* The call of mergeState.cmp that Less(i, j) makes on its: the source
\* indices of the two items it is handed.
lessCall(its, i, j) == <<index(its[i + 1]), index(its[j + 1])>>

RECURSIVE upCallsNoRootCheck(_, _, _)
\* upCalls of an up that calls Less before it looks whether j is the root.
upCallsNoRootCheck(a, its, j) ==
    LET i == GoDiv(j - 1, 2)
    IN  IF i = j \/ ~Less(a, its, j, i) THEN {lessCall(its, j, i)}
        ELSE {lessCall(its, j, i)} \cup upCallsNoRootCheck(a, Swap(its, i, j), i)

RECURSIVE upCalls(_, _, _)
\* The comparator calls of container/heap.up(j): none at the root, else the
\* one of Less(j, i) and, after a swap, those of the next round.
upCalls(a, its, j) ==
    LET i == GoDiv(j - 1, 2)
    IN  IF i = j THEN {}
        ELSE IF ~Less(a, its, j, i) THEN {lessCall(its, j, i)}
        ELSE {lessCall(its, j, i)} \cup upCalls(a, Swap(its, i, j), i)

RECURSIVE downCalls(_, _, _, _)
\* The comparator calls of container/heap.down(i, n): Less(j2, j1) where
\* there is a right child, Less(j, i), and after a swap those of the next
\* round.
downCalls(a, its, i, n) ==
    LET j1 == 2 * i + 1
        j  == IF j1 + 1 < n /\ Less(a, its, j1 + 1, j1) THEN j1 + 1 ELSE j1
        c  == (IF j1 + 1 < n THEN {lessCall(its, j1 + 1, j1)} ELSE {})
                \cup {lessCall(its, j, i)}
    IN  IF j1 >= n THEN {}
        ELSE IF ~Less(a, its, j, i) THEN c
        ELSE c \cup downCalls(a, Swap(its, i, j), j, n)

RECURSIVE heapInitFromCalls(_, _, _, _)
\* The comparator calls of the loop of container/heap.Init.
heapInitFromCalls(a, its, i, n) ==
    IF i < 0 THEN {}
    ELSE downCalls(a, its, i, n)
            \cup heapInitFromCalls(a, down(a, its, i, n), i - 1, n)

\* The comparator calls of heap.Init, heap.Pop and heap.Push.
heapInitCalls(a, its) == heapInitFromCalls(a, its, GoDiv(Len(its), 2) - 1, Len(its))
heapPopCalls(a, its) == downCalls(a, Swap(its, 0, Len(its) - 1), 0, Len(its) - 1)
heapPushCalls(a, its, x) == upCalls(a, Push(its, x), Len(its))

\* ------------------------------------------------------- the pull handles
\* next with the end of the sequence found one element early.
nextDropsLast(ws, p) ==
    IF p + 1 < Len(ws.elems) THEN [ok |-> TRUE, v |-> <<ws.elems[p + 1]>>]
    ELSE IF ws.endless THEN [ok |-> TRUE, v |-> <<ws.elems[Len(ws.elems)]>>]
    ELSE [ok |-> FALSE, v |-> <<>>]

\* next() of the handle iter.Pull made for the tagged sequence ws, which has
\* produced p elements so far: the next element and ok, or not ok.
next(ws, p) ==
    IF p < Len(ws.elems) THEN [ok |-> TRUE, v |-> <<ws.elems[p + 1]>>]
    ELSE IF ws.endless THEN [ok |-> TRUE, v |-> <<ws.elems[Len(ws.elems)]>>]
    ELSE [ok |-> FALSE, v |-> <<>>]

\* The bound of the model on sources that never exhaust: source i may be
\* asked for one more element.
MayPull(i) == ~seqs[i + 1].endless \/ pos[i] < MaxPulls

RECURSIVE Reverse(_)
\* s in reverse order.
Reverse(s) == IF s = <<>> THEN <<>> ELSE Append(Reverse(Tail(s)), Head(s))

\* The stop deferred only where the first pull gave an element.
deferredStopsOnlyPulled(op) == Reverse(SelectSeq(op, LAMBDA i : pulls[i]))

\* The deferred stop calls of all, which run when all returns, last first.
deferredStops(op) == Reverse(op)

\* The entry of log for a call of the next of source i that returned ok.
pullEvent(i, ok) == [op |-> "pull", src |-> i, ok |-> ok]

\* The entry of log for a call of yield with an element of source i.
emitEvent(i) == [op |-> "emit", src |-> i, ok |-> TRUE]

\* ------------------------------------------------------------- the machine
\* The state before the call, for the sources ss.
InitWith(ss) ==
    /\ api \in {"Merge", "Merge2"}
    /\ cmpNil \in BOOLEAN
    /\ seqs = ss
    /\ pc = "start"
    /\ ret = "none"
    /\ items = <<>>
    /\ pulls = [i \in Indices(seqs) |-> FALSE]
    /\ opened = <<>>
    /\ stops = <<>>
    /\ nexts = [i \in Indices(seqs) |-> 0]
    /\ pos = [i \in Indices(seqs) |-> 0]
    /\ initI = 0
    /\ cur = <<>>
    /\ emitted = <<>>
    /\ out = <<>>
    /\ stopped = FALSE
    /\ panic = ""
    /\ log = <<>>
    /\ earlier = "none"

\* Every source is nil or a finite sorted sequence.
Init == \E ss \in UNION {Inputs(n, MaxTotal) : n \in 0..MaxSeqs} : InitWith(ss)

\* Every source is nil or a finite sequence, sorted or not. There are many
\* more of these than of sorted ones, so they hold one element fewer.
InitAny ==
    \E ss \in UNION {AnyInputs(n, MaxTotal - 1) : n \in 0..MaxSeqs} : InitWith(ss)

\* The argument lists in which the sources of F never exhaust.
WithEndless(ss, F) ==
    [n \in 1..Len(ss) |-> [ss[n] EXCEPT !.endless = (n - 1) \in F]]

\* The sources of ss that yield at least one element.
NonEmpty(ss) == {i \in Indices(ss) : Len(ss[i + 1].elems) > 0}

\* Every source is nil, a finite sorted sequence, or a sorted sequence that
\* never exhausts.
InitEndless ==
    \E ss \in UNION {Inputs(n, MaxTotal) : n \in 0..MaxSeqs} :
        \E F \in SUBSET NonEmpty(ss) : InitWith(WithEndless(ss, F))

\* callResult with the nil check only on the way to mergeSeq.
callResultNilCheckLate(isNil, ss) ==
    IF ~anySeq(ss) THEN [pc |-> "returned", ret |-> "emptySeq", panic |-> ""]
    ELSE IF isNil
    THEN [pc |-> "panicked", ret |-> "none", panic |-> "kway: nil comparison function"]
    ELSE [pc |-> "returned", ret |-> "mergeSeq", panic |-> ""]

\* Merge / Merge2 up to their return: the nil check, the tagging of the
\* sources, and the choice between emptySeq and mergeSeq.
callResult(isNil, ss) ==
    IF isNil
    THEN [pc |-> "panicked", ret |-> "none", panic |-> "kway: nil comparison function"]
    ELSE IF ~anySeq(ss) THEN [pc |-> "returned", ret |-> "emptySeq", panic |-> ""]
    ELSE [pc |-> "returned", ret |-> "mergeSeq", panic |-> ""]

\* Call that opens the handle of the first source that is not nil and pulls
\* it, instead of leaving that to the iteration.
CallEager ==
    /\ pc = "start"
    /\ pc' = callResult(cmpNil, seqs).pc
    /\ ret' = callResult(cmpNil, seqs).ret
    /\ panic' = callResult(cmpNil, seqs).panic
    /\ IF callResult(cmpNil, seqs).ret = "mergeSeq"
       THEN LET i == CHOOSE j \in Indices(seqs) :
                        /\ ~seqs[j + 1].nil
                        /\ \A h \in Indices(seqs) : h < j => seqs[h + 1].nil
                r == next(wrappedSeqs(api, seqs)[i + 1], pos[i])
            IN  /\ nexts' = [nexts EXCEPT ![i] = @ + 1]
                /\ log' = Append(log, pullEvent(i, r.ok))
       ELSE UNCHANGED <<nexts, log>>
    /\ UNCHANGED <<api, cmpNil, seqs, items, pulls, opened, stops, pos,
                   initI, cur, emitted, out, stopped>>
    /\ UNCHANGED earlier

\* The caller calls Merge or Merge2.
Call ==
    /\ pc = "start"
    /\ pc' = callResult(cmpNil, seqs).pc
    /\ ret' = callResult(cmpNil, seqs).ret
    /\ panic' = callResult(cmpNil, seqs).panic
    /\ UNCHANGED <<api, cmpNil, seqs, items, pulls, opened, stops, nexts, pos,
                   initI, cur, emitted, out, stopped>>
    /\ UNCHANGED <<log, earlier>>

\* The consumer ranges over the returned sequence. emptySeq returns at once;
\* mergeSeq enters all, which makes items and pulls.
Iterate ==
    /\ pc = "returned"
    /\ IF ret = "emptySeq"
       THEN /\ pc' = "done"
            /\ UNCHANGED <<items, pulls, initI>>
       ELSE /\ pc' = "init"
            /\ items' = <<>>
            /\ pulls' = [i \in Indices(seqs) |-> FALSE]
            /\ initI' = 0
    /\ UNCHANGED <<api, cmpNil, seqs, ret, opened, stops, nexts, pos,
                   cur, emitted, out, stopped, panic>>
    /\ UNCHANGED <<log, earlier>>

\* InitPull without the nil check: a nil sequence is pulled like an empty one.
InitPullNoNilCheck ==
    /\ pc = "init"
    /\ initI < Len(seqs)
    /\ LET ws == wrappedSeqs(api, seqs)[initI + 1]
           r  == next(ws, pos[initI])
       IN  /\ opened' = Append(opened, initI)
           /\ nexts' = [nexts EXCEPT ![initI] = @ + 1]
           /\ pos' = [pos EXCEPT ![initI] = IF r.ok THEN @ + 1 ELSE @]
           /\ items' = IF r.ok THEN Append(items, r.v[1]) ELSE items
           /\ pulls' = IF r.ok THEN [pulls EXCEPT ![initI] = TRUE] ELSE pulls
           /\ log' = Append(log, pullEvent(initI, r.ok))
    /\ initI' = initI + 1
    /\ UNCHANGED <<api, cmpNil, seqs, pc, ret, stops, cur, emitted, out, stopped,
                   panic>>
    /\ UNCHANGED earlier

\* InitPull that records next at the slot its element took in items, not at
\* the index of the source.
InitPullRecordsAtSlot ==
    /\ pc = "init"
    /\ initI < Len(seqs)
    /\ LET ws == wrappedSeqs(api, seqs)[initI + 1]
           r  == next(ws, pos[initI])
       IN  IF ws.nil
           THEN UNCHANGED <<items, pulls, opened, nexts, pos, log>>
           ELSE /\ opened' = Append(opened, initI)
                /\ nexts' = [nexts EXCEPT ![initI] = @ + 1]
                /\ pos' = [pos EXCEPT ![initI] = IF r.ok THEN @ + 1 ELSE @]
                /\ items' = IF r.ok THEN Append(items, r.v[1]) ELSE items
                /\ pulls' = IF r.ok THEN [pulls EXCEPT ![Len(items)] = TRUE] ELSE pulls
                /\ log' = Append(log, pullEvent(initI, r.ok))
    /\ initI' = initI + 1
    /\ UNCHANGED <<api, cmpNil, seqs, pc, ret, stops, cur, emitted, out, stopped,
                   panic>>
    /\ UNCHANGED earlier

\* InitPull that asks a source that gave nothing on its first pull once more.
InitPullRetry ==
    /\ pc = "init"
    /\ initI < Len(seqs)
    /\ LET ws == wrappedSeqs(api, seqs)[initI + 1]
           r  == next(ws, pos[initI])
       IN  IF ws.nil
           THEN UNCHANGED <<items, pulls, opened, nexts, pos, log>>
           ELSE /\ opened' = Append(opened, initI)
                /\ nexts' = [nexts EXCEPT ![initI] = IF r.ok THEN @ + 1 ELSE @ + 2]
                /\ pos' = [pos EXCEPT ![initI] = IF r.ok THEN @ + 1 ELSE @]
                /\ items' = IF r.ok THEN Append(items, r.v[1]) ELSE items
                /\ pulls' = IF r.ok THEN [pulls EXCEPT ![initI] = TRUE] ELSE pulls
                /\ log' = IF r.ok THEN Append(log, pullEvent(initI, TRUE))
                           ELSE log \o <<pullEvent(initI, FALSE),
                                         pullEvent(initI, FALSE)>>
    /\ initI' = initI + 1
    /\ UNCHANGED <<api, cmpNil, seqs, pc, ret, stops, cur, emitted, out, stopped,
                   panic>>
    /\ UNCHANGED earlier

\* One pass of the first loop of all, for the source initI: a nil sequence is
\* skipped, any other gets a handle and is pulled once.
InitPull ==
    /\ pc = "init"
    /\ initI < Len(seqs)
    /\ LET ws == wrappedSeqs(api, seqs)[initI + 1]
           r  == next(ws, pos[initI])
       IN  IF ws.nil
           THEN UNCHANGED <<items, pulls, opened, nexts, pos, log>>
           ELSE /\ opened' = Append(opened, initI)
                /\ nexts' = [nexts EXCEPT ![initI] = @ + 1]
                /\ pos' = [pos EXCEPT ![initI] = IF r.ok THEN @ + 1 ELSE @]
                /\ items' = IF r.ok THEN Append(items, r.v[1]) ELSE items
                /\ pulls' = IF r.ok THEN [pulls EXCEPT ![initI] = TRUE] ELSE pulls
                /\ log' = Append(log, pullEvent(initI, r.ok))
    /\ initI' = initI + 1
    /\ UNCHANGED <<api, cmpNil, seqs, pc, ret, stops, cur, emitted, out, stopped,
                   panic>>
    /\ UNCHANGED earlier

\* heap.Init(x), after the first loop.
HeapInit ==
    /\ pc = "init"
    /\ initI = Len(seqs)
    /\ items' = heapInit(api, items)
    /\ pc' = "loop"
    /\ UNCHANGED <<api, cmpNil, seqs, ret, pulls, opened, stops, nexts, pos,
                   initI, cur, emitted, out, stopped, panic>>
    /\ UNCHANGED <<log, earlier>>

\* Finish with the loop left while one item is still in the frontier.
FinishEarly ==
    /\ pc = "loop"
    /\ Len(items) <= 1
    /\ stops' = stops \o deferredStops(opened)
    /\ pc' = "done"
    /\ UNCHANGED <<api, cmpNil, seqs, ret, items, pulls, opened, nexts, pos,
                   initI, cur, emitted, out, stopped, panic>>
    /\ UNCHANGED <<log, earlier>>

\* The loop condition fails: all returns, and its deferred stops run.
Finish ==
    /\ pc = "loop"
    /\ Len(items) = 0
    /\ stops' = stops \o deferredStops(opened)
    /\ pc' = "done"
    /\ UNCHANGED <<api, cmpNil, seqs, ret, items, pulls, opened, nexts, pos,
                   initI, cur, emitted, out, stopped, panic>>
    /\ UNCHANGED <<log, earlier>>

\* PopYield that takes any of the items the comparator holds least, the
\* source index left out of the choice.
PopYieldAny ==
    /\ pc = "loop"
    /\ Len(items) # 0
    /\ \E n \in 1..Len(items) :
        /\ \A m \in 1..Len(items) : stateCmp(api, items[n], items[m]) <= 0
        /\ LET r == heapPop(api, Swap(items, 0, n - 1))
           IN  /\ items' = r.items
               /\ cur' = <<r.item>>
               /\ emitted' = Append(emitted, r.item)
               /\ out' = Append(out, unwrap(api, r.item))
               /\ log' = Append(log, emitEvent(index(r.item)))
    /\ pc' = "yield"
    /\ UNCHANGED <<api, cmpNil, seqs, ret, pulls, opened, stops, nexts, pos,
                   initI, stopped, panic>>
    /\ UNCHANGED earlier

\* v := heap.Pop(x), and yield(v): the consumer receives the value.
PopYield ==
    /\ pc = "loop"
    /\ Len(items) # 0
    /\ LET r == heapPop(api, items)
       IN  /\ items' = r.items
           /\ cur' = <<r.item>>
           /\ emitted' = Append(emitted, r.item)
           /\ out' = Append(out, unwrap(api, r.item))
           /\ log' = Append(log, emitEvent(index(r.item)))
    /\ pc' = "yield"
    /\ UNCHANGED <<api, cmpNil, seqs, ret, pulls, opened, stops, nexts, pos,
                   initI, stopped, panic>>
    /\ UNCHANGED earlier

\* The refill reading the index the first loop ended on.
refillSourceStale(v) == Len(seqs) - 1

\* The source the refill pulls: the one of the element popped last.
refillSource(v) == index(v)

\* The consumer asks for more: yield returns true.
YieldContinue ==
    /\ pc = "yield"
    /\ MayPull(refillSource(cur[1]))
    /\ pc' = "refill"
    /\ UNCHANGED <<api, cmpNil, seqs, ret, items, pulls, opened, stops, nexts,
                   pos, initI, cur, emitted, out, stopped, panic>>
    /\ UNCHANGED <<log, earlier>>

\* YieldStop with the refill pull made before the result of yield is read.
YieldStopAfterRefill ==
    /\ pc = "yield"
    /\ stopped' = TRUE
    /\ LET i == refillSource(cur[1])
           r == next(wrappedSeqs(api, seqs)[i + 1], pos[i])
       IN  /\ nexts' = [nexts EXCEPT ![i] = @ + 1]
           /\ pos' = [pos EXCEPT ![i] = IF r.ok THEN @ + 1 ELSE @]
           /\ log' = Append(log, pullEvent(i, r.ok))
    /\ stops' = stops \o deferredStops(opened)
    /\ pc' = "done"
    /\ UNCHANGED <<api, cmpNil, seqs, ret, items, pulls, opened,
                   initI, cur, emitted, out, panic>>
    /\ UNCHANGED earlier

\* The consumer stops: yield returns false, all returns, and its deferred
\* stops run.
YieldStop ==
    /\ pc = "yield"
    /\ stopped' = TRUE
    /\ stops' = stops \o deferredStops(opened)
    /\ pc' = "done"
    /\ UNCHANGED <<api, cmpNil, seqs, ret, items, pulls, opened, nexts, pos,
                   initI, cur, emitted, out, panic>>
    /\ UNCHANGED <<log, earlier>>

\* Refill that asks a source that reported exhaustion a second time.
RefillRetry ==
    /\ pc = "refill"
    /\ LET i == refillSource(cur[1])
           r == next(wrappedSeqs(api, seqs)[i + 1], pos[i])
       IN  /\ nexts' = [nexts EXCEPT ![i] = IF r.ok THEN @ + 1 ELSE @ + 2]
           /\ pos' = [pos EXCEPT ![i] = IF r.ok THEN @ + 1 ELSE @]
           /\ items' = IF r.ok THEN heapPush(api, items, r.v[1]) ELSE items
           /\ log' = IF r.ok THEN Append(log, pullEvent(i, TRUE))
                      ELSE log \o <<pullEvent(i, FALSE), pullEvent(i, FALSE)>>
    /\ pc' = "loop"
    /\ UNCHANGED <<api, cmpNil, seqs, ret, pulls, opened, stops, initI, cur,
                   emitted, out, stopped, panic>>
    /\ UNCHANGED earlier

\* v, ok := pulls[v.index()](), and heap.Push(x, v) if ok. A nil entry of
\* pulls makes the call panic.
Refill ==
    /\ pc = "refill"
    /\ LET i == refillSource(cur[1])
       IN  IF i \notin DOMAIN pulls \/ ~pulls[i]
           THEN /\ pc' = "panicked"
                /\ panic' = "nil func call"
                /\ stops' = stops \o deferredStops(opened)
                /\ UNCHANGED <<items, nexts, pos, log>>
           ELSE LET r == next(wrappedSeqs(api, seqs)[i + 1], pos[i])
                IN  /\ nexts' = [nexts EXCEPT ![i] = @ + 1]
                    /\ pos' = [pos EXCEPT ![i] = IF r.ok THEN @ + 1 ELSE @]
                    /\ items' = IF r.ok THEN heapPush(api, items, r.v[1]) ELSE items
                    /\ pc' = "loop"
                    /\ log' = Append(log, pullEvent(i, r.ok))
                    /\ UNCHANGED <<stops, panic>>
    /\ UNCHANGED <<api, cmpNil, seqs, ret, pulls, opened, initI, cur, emitted,
                   out, stopped>>
    /\ UNCHANGED earlier

Next ==
    \/ Call
    \/ Iterate
    \/ InitPull
    \/ HeapInit
    \/ Finish
    \/ PopYield
    \/ YieldContinue
    \/ YieldStop
    \/ Refill

Spec == Init /\ [][Next]_vars

\* Reiterate with the handles of the iteration before kept: the sources go
\* on from where that iteration left them.
ReiterateKeepsPos ==
    /\ pc = "done"
    /\ earlier' = (IF stopped THEN "stopped" ELSE "drained")
    /\ pc' = (IF ret = "emptySeq" THEN "done" ELSE "init")
    /\ items' = <<>>
    /\ pulls' = [i \in Indices(seqs) |-> FALSE]
    /\ initI' = 0
    /\ opened' = <<>>
    /\ stops' = <<>>
    /\ nexts' = [i \in Indices(seqs) |-> 0]
    /\ cur' = <<>>
    /\ emitted' = <<>>
    /\ out' = <<>>
    /\ stopped' = FALSE
    /\ log' = <<>>
    /\ UNCHANGED <<api, cmpNil, seqs, ret, pos, panic>>

\* The consumer ranges over the returned sequence once more, after an
\* iteration of it has ended. The closure mergeSeq returned makes a new
\* mergeState and all makes new items, pulls and handles; iter.Pull starts
\* each source, which can be iterated again, from its first element. What
\* is recorded of an iteration (out, log, opened, stops, ...) starts again.
Reiterate ==
    /\ pc = "done"
    /\ earlier' = (IF stopped THEN "stopped" ELSE "drained")
    /\ pc' = (IF ret = "emptySeq" THEN "done" ELSE "init")
    /\ items' = <<>>
    /\ pulls' = [i \in Indices(seqs) |-> FALSE]
    /\ initI' = 0
    /\ opened' = <<>>
    /\ stops' = <<>>
    /\ nexts' = [i \in Indices(seqs) |-> 0]
    /\ pos' = [i \in Indices(seqs) |-> 0]
    /\ cur' = <<>>
    /\ emitted' = <<>>
    /\ out' = <<>>
    /\ stopped' = FALSE
    /\ log' = <<>>
    /\ UNCHANGED <<api, cmpNil, seqs, ret, panic>>

NextRe ==
    \/ Next
    \/ Reiterate

\* Every source is nil or a finite sorted sequence. Iterating again takes
\* about three times the states, so the sources hold one element fewer.
InitRe == \E ss \in UNION {Inputs(n, MaxTotal - 1) : n \in 0..MaxSeqs} : InitWith(ss)

\* The same machine with a consumer that may iterate the returned sequence
\* any number of times.
SpecRe == InitRe /\ [][NextRe]_vars

\* The runs in which the caller, the consumer and the engine always take
\* their next step: a call made is iterated, and no one halts half way.
SpecFair == Init /\ [][Next]_vars /\ WF_vars(Next)

\* The same machine on argument lists whose sources need not be sorted.
SpecAny == InitAny /\ [][Next]_vars

\* SpecAny for the runs in which everyone always takes the next step.
SpecAnyFair == InitAny /\ [][Next]_vars /\ WF_vars(Next)

\* The same machine on argument lists with sources that never exhaust.
SpecEndless == InitEndless /\ [][Next]_vars

\* The comparator calls of the step the engine takes next: those of heap.Init
\* at the end of the first loop, of heap.Pop at the head of the loop, and of
\* heap.Push where the refill gets an element.
stepCalls ==
    IF pc = "init" /\ initI = Len(seqs) THEN heapInitCalls(api, items)
    ELSE IF pc = "loop" /\ Len(items) # 0 THEN heapPopCalls(api, items)
    ELSE IF pc = "refill" /\ refillSource(cur[1]) \in DOMAIN pulls
                         /\ pulls[refillSource(cur[1])]
    THEN LET i == refillSource(cur[1])
             r == next(wrappedSeqs(api, seqs)[i + 1], pos[i])
         IN  IF r.ok THEN heapPushCalls(api, items, r.v[1]) ELSE {}
    ELSE {}

\* ------------------------------------------- the tagging layer on its own
\* One sequence returned by wrapSeq / wrapSeq2 is iterated by a consumer of
\* its own. The sequence wrapped is the one source of seqs that is not nil,
\* and i is its argument position; pos counts what that source has yielded,
\* cur is the tagged element in the making and emitted what was yielded.
InitWrap ==
    /\ \E ss \in UNION {AnyInputs(n, MaxTotal - 1) : n \in 1..MaxSeqs} :
        /\ Cardinality({n \in 1..Len(ss) : ~ss[n].nil}) = 1
        /\ seqs = ss
    /\ api \in {"Merge", "Merge2"}
    /\ cmpNil = FALSE
    /\ pc = "wrap"
    /\ ret = "none"
    /\ items = <<>>
    /\ pulls = [i \in Indices(seqs) |-> FALSE]
    /\ opened = <<>>
    /\ stops = <<>>
    /\ nexts = [i \in Indices(seqs) |-> 0]
    /\ pos = [i \in Indices(seqs) |-> 0]
    /\ initI = 0
    /\ cur = <<>>
    /\ emitted = <<>>
    /\ out = <<>>
    /\ stopped = FALSE
    /\ panic = ""
    /\ log = <<>>
    /\ earlier = "none"

\* The argument position of the sequence wrapped.
WrapSource == CHOOSE i \in Indices(seqs) : ~seqs[i + 1].nil

\* for v := range seq: seq yields its next element, which is tagged, or seq
\* returns and so does the wrapper.
WrapRange ==
    /\ pc = "wrap"
    /\ LET i == WrapSource
       IN  IF pos[i] < Len(seqs[i + 1].elems)
           THEN /\ pos' = [pos EXCEPT ![i] = @ + 1]
                /\ cur' = <<wrappedSeqs(api, seqs)[i + 1].elems[pos[i] + 1]>>
                /\ pc' = "wrapYield"
           ELSE /\ pc' = "wrapDone"
                /\ UNCHANGED <<pos, cur>>
    /\ UNCHANGED <<api, cmpNil, seqs, ret, items, pulls, opened, stops, nexts,
                   initI, emitted, out, stopped, panic, log, earlier>>

\* yield(&wrappedSeqValue{i, v}) returns true: the loop goes on.
WrapYieldContinue ==
    /\ pc = "wrapYield"
    /\ emitted' = Append(emitted, cur[1])
    /\ pc' = "wrap"
    /\ UNCHANGED <<api, cmpNil, seqs, ret, items, pulls, opened, stops, nexts,
                   pos, initI, cur, out, stopped, panic, log, earlier>>

\* yield(&wrappedSeqValue{i, v}) returns false: the wrapper returns, which
\* ends the range over seq.
WrapYieldStop ==
    /\ pc = "wrapYield"
    /\ emitted' = Append(emitted, cur[1])
    /\ stopped' = TRUE
    /\ pc' = "wrapDone"
    /\ UNCHANGED <<api, cmpNil, seqs, ret, items, pulls, opened, stops, nexts,
                   pos, initI, cur, out, panic, log, earlier>>

NextWrap ==
    \/ WrapRange
    \/ WrapYieldContinue
    \/ WrapYieldStop

SpecWrap == InitWrap /\ [][NextWrap]_vars

\* ------------------------------------------------------------ the claims
\* The consumer's view of a source element: the value for Merge, the pair for
\* Merge2.
RawElem(a, e) == IF a = "Merge" THEN e ELSE <<e.value, e.seqID>>

\* The caller's comparator on two values the consumer received.
OutCmp(a, x, y) ==
    IF a = "Merge" THEN cmpFunc(x, y) ELSE cmpFunc2(x[1], x[2], y[1], y[2])

\* The source index a received value came from, read off its seqID.
OutSource(a, x) == IF a = "Merge" THEN x.seqID - 1 ELSE x[2] - 1

\* Every source is nil or finite.
AllFinite == \A n \in 1..Len(seqs) : ~seqs[n].endless

\* Each source is sorted per the caller's comparator.
InputsSorted ==
    \A n \in 1..Len(seqs) : \A p \in 1..(Len(seqs[n].elems) - 1) :
        OutCmp(api, RawElem(api, seqs[n].elems[p]),
                    RawElem(api, seqs[n].elems[p + 1])) <= 0

\* The iteration ran to its end without the consumer stopping it.
FullDrain == pc = "done" /\ ~stopped

\* The sources that have handed an element to the consumer.
Contributors == {OutSource(api, out[n]) : n \in 1..Len(out)}

\* C1: for finite sorted sources, the output of a full drain is sorted per
\* the comparator and as long as all the inputs together.
C1_SortedAndComplete ==
    (FullDrain /\ AllFinite /\ InputsSorted) =>
        /\ \A n \in 1..(Len(out) - 1) : OutCmp(api, out[n], out[n + 1]) <= 0
        /\ Len(out) = TotalLen(seqs)

\* A full drain of three sources that all contribute, with both keys.
C1_Witness ==
    /\ FullDrain /\ ret = "mergeSeq"
    /\ Cardinality(Contributors) >= 3
    /\ Len(out) >= 4
    /\ OutCmp(api, out[1], out[Len(out)]) < 0

\* C2: in a full drain of sorted sources, of two values that compare equal
\* the one from the source with the lower index is received first.
C2_Stability ==
    (FullDrain /\ AllFinite /\ InputsSorted) =>
        \A m, n \in 1..Len(out) :
            (/\ OutCmp(api, out[m], out[n]) = 0
             /\ OutSource(api, out[m]) < OutSource(api, out[n])) => m < n

\* A full drain in which all three sources hold a value of one key.
C2_Witness ==
    /\ FullDrain /\ Len(out) >= 4
    /\ \E m, n, q \in 1..Len(out) :
        /\ OutCmp(api, out[m], out[n]) = 0 /\ OutCmp(api, out[n], out[q]) = 0
        /\ OutSource(api, out[m]) = 0
        /\ OutSource(api, out[n]) = 1
        /\ OutSource(api, out[q]) = 2

\* The elements of s with how often each occurs.
BagOf(s) ==
    [e \in {s[n] : n \in DOMAIN s} |-> Cardinality({n \in DOMAIN s : s[n] = e})]

RECURSIVE AllElems(_, _)
\* All elements of all the sources ss, as the consumer would see them.
AllElems(a, ss) ==
    IF ss = <<>> THEN <<>>
    ELSE [p \in 1..Len(Head(ss).elems) |-> RawElem(a, Head(ss).elems[p])]
            \o AllElems(a, Tail(ss))

\* C3: a full drain hands over every element of every source exactly once:
\* the output holds the elements of the inputs, each as often as the inputs do.
C3_Permutation ==
    (FullDrain /\ AllFinite) => BagOf(out) = BagOf(AllElems(api, seqs))

\* A full drain in which a source holds one value twice and another source
\* contributes too.
C3_Witness ==
    /\ FullDrain /\ Cardinality(Contributors) >= 2
    /\ \E e \in DOMAIN BagOf(out) : BagOf(out)[e] >= 2

\* The places of the elements of the sources ss: <<source index, position>>.
Places(ss) ==
    UNION {{<<i, p>> : p \in 1..Len(ss[i + 1].elems)} : i \in Indices(ss)}

\* The element at place t precedes the one at place u: by the comparator,
\* then by source index, then by position.
PlaceBefore(a, ss, t, u) ==
    LET c == OutCmp(a, RawElem(a, ss[t[1] + 1].elems[t[2]]),
                       RawElem(a, ss[u[1] + 1].elems[u[2]]))
    IN  \/ c < 0
        \/ c = 0 /\ t[1] < u[1]
        \/ c = 0 /\ t[1] = u[1] /\ t[2] < u[2]

\* The full merge of finite sources: their elements in the order PlaceBefore.
FullMerge(a, ss) ==
    LET P == Places(ss)
        placeAt(n) == CHOOSE t \in P :
                        Cardinality({u \in P : PlaceBefore(a, ss, u, t)}) = n - 1
    IN  [n \in 1..Cardinality(P) |->
            RawElem(a, ss[placeAt(n)[1] + 1].elems[placeAt(n)[2]])]

\* What the consumer has received is the start of the full merge.
OutIsPrefix ==
    /\ Len(out) <= TotalLen(seqs)
    /\ out = SubSeq(FullMerge(api, seqs), 1, Len(out))

\* C4: a consumer that stops after k elements has received the first k
\* elements of the full merge of the same inputs, and from the stop on no
\* source is pulled.
C4_EarlyTermination ==
    /\ []((stopped /\ AllFinite /\ InputsSorted) => OutIsPrefix)
    /\ [][stopped' => (nexts' = nexts /\ pos' = pos)]_vars

\* The consumer stopped with elements of two sources received and elements
\* of the inputs left over.
C4_Witness ==
    /\ stopped /\ pc = "done"
    /\ Cardinality(Contributors) >= 2
    /\ Len(out) >= 2 /\ Len(out) < TotalLen(seqs)

\* C5: with a nil comparator the call itself panics with "kway: nil
\* comparison function": no sequence is returned, no source is pulled and no
\* element is yielded, whatever the sources are.
C5_NilComparatorPanics ==
    cmpNil =>
        /\ pc \in {"start", "panicked"}
        /\ pc = "panicked" =>
            /\ panic = "kway: nil comparison function"
            /\ ret = "none"
            /\ opened = <<>> /\ out = <<>>
            /\ \A i \in Indices(seqs) : nexts[i] = 0 /\ pos[i] = 0

\* Merge2 with a nil comparator and only nil sources has panicked.
C5_Witness ==
    /\ cmpNil /\ pc = "panicked" /\ api = "Merge2"
    /\ Len(seqs) >= 2
    /\ \A n \in 1..Len(seqs) : seqs[n].nil

\* The indices of the sources that are not nil.
NonNil == {i \in Indices(seqs) : ~seqs[i + 1].nil}

\* Every handle opened for a non-nil source was released, each once.
AllReleased ==
    /\ {opened[n] : n \in 1..Len(opened)} = NonNil
    /\ Len(opened) = Cardinality(NonNil)
    /\ \A i \in NonNil : Cardinality({n \in 1..Len(stops) : stops[n] = i}) = 1
    /\ Len(stops) = Cardinality(NonNil)

\* C6: when the iteration of a merge returns to the consumer, stopped or
\* drained, every pull handle opened for a non-nil source has been released,
\* those of sources exhausted on their first pull too; and after the stop no
\* source is advanced.
C6_HandlesReleased ==
    /\ []((pc = "done" /\ ret = "mergeSeq") => AllReleased)
    /\ [][stopped' => pos' = pos]_vars

\* The consumer stopped while one source was exhausted on its first pull and
\* another was consumed in part.
C6_Witness ==
    /\ pc = "done" /\ stopped
    /\ \E i \in NonNil : Len(seqs[i + 1].elems) = 0
    /\ \E i \in NonNil : 0 < pos[i] /\ pos[i] < Len(seqs[i + 1].elems)
    /\ Cardinality(NonNil) >= 3

\* How many elements of source i the consumer has received.
ReceivedFrom(i) == Cardinality({n \in 1..Len(out) : OutSource(api, out[n]) = i})

\* C7: in every state of an iteration each source has produced at most one
\* element more than the consumer has received from it, and the frontier
\* holds no more elements than there are non-nil sources; sources that never
\* exhaust included.
C7_BoundedLookahead ==
    /\ \A i \in Indices(seqs) : pos[i] - ReceivedFrom(i) \in {0, 1}
    /\ Len(items) <= Cardinality(NonNil)

\* A source that never exhausts has produced more elements than it lists and
\* runs one element ahead, with a second element in the frontier.
C7_Witness ==
    /\ \E i \in Indices(seqs) :
        /\ seqs[i + 1].endless
        /\ pos[i] > Len(seqs[i + 1].elems)
        /\ pos[i] - ReceivedFrom(i) = 1
    /\ Len(items) >= 2

\* How many elements of source i the frontier holds.
InFrontier(i) == Cardinality({n \in 1..Len(items) : index(items[n]) = i})

\* C8 as stated: when the consumer has stopped, every element a source has
\* produced was received by the consumer.
C8_NothingPulledUnemitted ==
    stopped => \A i \in Indices(seqs) : pos[i] = ReceivedFrom(i)

\* C8 as amended: when the consumer has stopped, the elements a source has
\* produced are the ones the consumer received and the ones the frontier
\* holds, of which there is at most one per source.
C8_OnlyFrontierUnemitted ==
    stopped => \A i \in Indices(seqs) :
        /\ pos[i] = ReceivedFrom(i) + InFrontier(i)
        /\ InFrontier(i) <= 1

\* The consumer stopped while the frontier held the element of a source that
\* has more to give.
C8_Witness ==
    /\ stopped /\ pc = "done"
    /\ \E i \in Indices(seqs) :
        InFrontier(i) = 1 /\ pos[i] < Len(seqs[i + 1].elems)

\* Every source is nil or yields nothing.
NoElements == \A n \in 1..Len(seqs) : seqs[n].nil \/ seqs[n].elems = <<>>

\* C9: with no sources, with nil sources only, or with an empty source, the
\* output is empty and no element is pulled: a nil source is never asked, an
\* empty one is asked once, which is how it is found to be empty.
C9_AbsenceHandling ==
    NoElements =>
        /\ out = <<>> /\ ~stopped
        /\ \A i \in Indices(seqs) :
            /\ pos[i] = 0
            /\ nexts[i] <= (IF seqs[i + 1].nil THEN 0 ELSE 1)
            /\ pc = "done" => nexts[i] = (IF seqs[i + 1].nil THEN 0 ELSE 1)

\* Merge of a single empty sequence has been iterated to its end.
C9_Witness ==
    /\ pc = "done" /\ api = "Merge"
    /\ Len(seqs) = 1 /\ ~seqs[1].nil /\ seqs[1].elems = <<>>
    /\ nexts[0] = 1

\* Every source is nil (there may be none).
AllNil == \A n \in 1..Len(seqs) : seqs[n].nil

\* C10: if every sequence is nil, Merge and Merge2 return emptySeq: iterating
\* it yields nothing, never enters the engine (no frontier, no heap) and
\* opens no pull handle.
C10_AllNilIsEmptySeq ==
    (AllNil /\ ~cmpNil /\ pc # "start") =>
        /\ ret = "emptySeq"
        /\ pc \in {"returned", "done"}
        /\ out = <<>> /\ items = <<>> /\ opened = <<>> /\ stops = <<>>
        /\ \A i \in Indices(seqs) : ~pulls[i] /\ nexts[i] = 0

\* Merge2 of two or more nil sequences has been iterated to its end.
C10_Witness ==
    /\ pc = "done" /\ AllNil /\ ~cmpNil
    /\ api = "Merge2" /\ Len(seqs) >= 2

\* There is one source, and it is not nil.
SingleSource == Len(seqs) = 1 /\ ~seqs[1].nil

\* C11: the merge of a single finite sequence s, sorted or not, yields the
\* elements of s in the order of s.
C11_SingleSourceIdentity ==
    (FullDrain /\ SingleSource /\ AllFinite) => out = AllElems(api, seqs)

\* Merge of one sequence of three elements that is not sorted was drained.
C11_Witness ==
    /\ FullDrain /\ SingleSource /\ api = "Merge"
    /\ Len(seqs[1].elems) >= 3
    /\ Len(out) >= 3
    /\ OutCmp(api, out[1], out[2]) > 0

\* C12: for finite sorted inputs the output of a full drain is the elements
\* of all sources in the order of (comparator on the value, source index,
\* position in the source).
C12_EqualsReference ==
    (FullDrain /\ AllFinite /\ InputsSorted) => out = FullMerge(api, seqs)

\* A full drain of three sources, two of which hold a value of the same key,
\* while the output has both keys.
C12_Witness ==
    /\ FullDrain /\ Cardinality(Contributors) >= 3
    /\ OutCmp(api, out[1], out[Len(out)]) < 0
    /\ \E m, n \in 1..Len(out) :
        /\ OutCmp(api, out[m], out[n]) = 0
        /\ OutSource(api, out[m]) # OutSource(api, out[n])

\* The n-th smallest number of the finite set S of numbers.
Nth(S, n) == CHOOSE x \in S : Cardinality({y \in S : y < x}) = n - 1

\* The first calls in log are one next per non-nil source, in ascending
\* source index, and the call after them, if any, is the first yield.
InitialPullsFirst ==
    LET K == Cardinality(NonNil)
    IN  /\ \A n \in 1..Len(log) :
            /\ n <= K => (log[n].op = "pull" /\ log[n].src = Nth(NonNil, n))
            /\ n = K + 1 => log[n].op = "emit"
        /\ (\E n \in 1..Len(log) : log[n].op = "emit") => Len(log) > K

\* C13: the call of Merge / Merge2 pulls nothing; the iteration first pulls
\* every non-nil source once, in ascending source index, and only then
\* yields its first element.
C13_LazyConstruction ==
    /\ pc \in {"start", "returned"} =>
        (log = <<>> /\ opened = <<>> /\ \A i \in Indices(seqs) : nexts[i] = 0)
    /\ pc = "init" =>
        /\ Len(log) = Cardinality({i \in NonNil : i < initI})
        /\ \A i \in Indices(seqs) :
            nexts[i] = (IF i \in NonNil /\ i < initI THEN 1 ELSE 0)
    /\ InitialPullsFirst

\* The first element was yielded after a nil source was passed over and three
\* sources were pulled.
C13_Witness ==
    /\ pc = "yield" /\ Len(out) = 1
    /\ Cardinality(NonNil) >= 2 /\ Cardinality(NonNil) < Len(seqs)
    /\ Len(log) = Cardinality(NonNil) + 1

\* The pairs the sources of ss produce, each a key with the value that
\* stands at the same position.
SourcePairs(ss) ==
    UNION {{<<ss[n].elems[p].value, ss[n].elems[p].seqID>> :
                p \in 1..Len(ss[n].elems)} : n \in 1..Len(ss)}

\* C14: every pair Merge2 hands over was produced by a source as one pair,
\* each pair of the sources is handed over as often as the sources hold it,
\* and the pairs come in the order of (comparator on the pairs, source index,
\* position), as the values of Merge do.
C14_Merge2Pairs ==
    api = "Merge2" =>
        /\ \A n \in 1..Len(out) : out[n] \in SourcePairs(seqs)
        /\ (FullDrain /\ AllFinite /\ InputsSorted) =>
            /\ BagOf(out) = BagOf(AllElems("Merge2", seqs))
            /\ out = FullMerge("Merge2", seqs)

\* Merge2 was drained with pairs of one key from two sources, received in
\* the order of the sources.
C14_Witness ==
    /\ api = "Merge2" /\ FullDrain /\ Len(out) >= 3
    /\ \E m, n \in 1..Len(out) :
        /\ m < n
        /\ out[m][1] = out[n][1]
        /\ out[m][2] < out[n][2]

\* The place of the n-th element of the full merge of ss.
PlaceAt(a, ss, n) ==
    CHOOSE t \in Places(ss) :
        Cardinality({u \in Places(ss) : PlaceBefore(a, ss, u, t)}) = n - 1

\* The n-th call that an iteration over ss makes on a source or on the
\* consumer, as the inputs alone fix it: one pull per non-nil source in
\* ascending index, then for every element of the full merge its yield and
\* one pull of its source.
RefCall(a, ss, n) ==
    LET NN == {i \in Indices(ss) : ~ss[i + 1].nil}
        K == Cardinality(NN)
        t == PlaceAt(a, ss, (n - K + 1) \div 2)
    IN  IF n <= K
        THEN pullEvent(Nth(NN, n), Len(ss[Nth(NN, n) + 1].elems) > 0)
        ELSE IF (n - K) % 2 = 1 THEN emitEvent(t[1])
        ELSE pullEvent(t[1], t[2] < Len(ss[t[1] + 1].elems))

\* C15: what an iteration emits and the calls it makes on the sources are
\* fixed by the comparator and the sources: in every run the n-th call is the
\* n-th call of the one sequence of calls the inputs determine, and the n-th
\* element received is the n-th element of the full merge; two runs on the
\* same inputs so agree call by call and element by element.
C15_Deterministic ==
    (AllFinite /\ InputsSorted) =>
        /\ Len(log) <= Cardinality(NonNil) + 2 * TotalLen(seqs)
        /\ Len(log) > 0 => log[Len(log)] = RefCall(api, seqs, Len(log))
        /\ Len(out) <= TotalLen(seqs)
        /\ Len(out) > 0 =>
            LET t == PlaceAt(api, seqs, Len(out))
            IN  out[Len(out)] = RawElem(api, seqs[t[1] + 1].elems[t[2]])

\* A full drain of sources that tie on a key, where only the source index
\* decides which is taken first, with a source found exhausted on the way.
C15_Witness ==
    /\ FullDrain /\ Len(out) >= 3 /\ Cardinality(Contributors) >= 2
    /\ \E m \in 1..(Len(out) - 1) :
        /\ OutCmp(api, out[m], out[m + 1]) = 0
        /\ OutSource(api, out[m]) # OutSource(api, out[m + 1])
    /\ \E n \in 1..(Len(log) - 1) : log[n].op = "pull" /\ ~log[n].ok

\* In the calls made so far every yield is followed by a pull of the source
\* of the element yielded, and that pull by the next yield.
OnePullBetweenEmits ==
    \A n \in 1..Len(log) :
        log[n].op = "emit" =>
            /\ n + 1 <= Len(log) =>
                (log[n + 1].op = "pull" /\ log[n + 1].src = log[n].src)
            /\ n + 2 <= Len(log) => log[n + 2].op = "emit"

\* A step from the point where the consumer has asked for more: it pulls the
\* source of the element yielded last and no other; an element pulled is
\* added to the frontier, and on exhaustion the frontier stays as the pop
\* left it.
RefillStep ==
    pc = "refill" =>
        LET s == index(cur[1])
        IN  /\ nexts' = [nexts EXCEPT ![s] = @ + 1]
            /\ \A i \in Indices(seqs) : i # s => pos'[i] = pos[i]
            /\ \/ /\ pos'[s] = pos[s] + 1
                  /\ Len(items') = Len(items) + 1
                  /\ BagOf(items') =
                        BagOf(Append(items, wrappedSeqs(api, seqs)[s + 1].elems[pos'[s]]))
               \/ /\ pos'[s] = pos[s]
                  /\ pos[s] = Len(seqs[s + 1].elems)
                  /\ items' = items

\* A step that yields takes one element out of the frontier.
PopStep == (pc = "loop" /\ pc' = "yield") => Len(items') = Len(items) - 1

\* C16: after an element of source s is yielded and the consumer asks for
\* more, exactly one pull happens before the next yield, on s and on no other
\* source; an element it yields is inserted in the frontier, and when s is
\* exhausted the frontier is left one smaller than before the yield.
C16_RefillSameSource ==
    /\ []OnePullBetweenEmits
    /\ [][RefillStep /\ PopStep]_vars

\* A refill found its source exhausted while another source still had an
\* element in the frontier, after an earlier refill had yielded an element.
C16_Witness ==
    /\ pc = "loop" /\ Len(items) >= 1 /\ Len(out) >= 2
    /\ log[Len(log)].op = "pull" /\ ~log[Len(log)].ok
    /\ \E n \in 2..(Len(log) - 1) :
        log[n].op = "pull" /\ log[n].ok /\ log[n - 1].op = "emit"

\* The sources that have produced an element the consumer has not received.
HoldingSources == {i \in Indices(seqs) : pos[i] > ReceivedFrom(i)}

\* C17: whenever the engine is about to take the next minimum, the frontier
\* holds as many elements as there are sources that have produced an element
\* not yet emitted, and at most one element of each source.
C17_FrontierSize ==
    pc = "loop" =>
        /\ Len(items) = Cardinality(HoldingSources)
        /\ \A i \in Indices(seqs) : InFrontier(i) <= 1
        /\ \A i \in Indices(seqs) : InFrontier(i) = 1 <=> i \in HoldingSources

\* About to take a minimum after two elements were emitted, with two
\* elements in the frontier and one source already exhausted.
C17_Witness ==
    /\ pc = "loop" /\ Len(out) >= 2 /\ Len(items) = 2
    /\ \E i \in NonNil : nexts[i] > pos[i]

\* The frontier item x precedes the item y: by the comparator on the values,
\* then by source index.
ItemBefore(x, y) ==
    LET c == OutCmp(api, unwrap(api, x), unwrap(api, y))
    IN  c < 0 \/ (c = 0 /\ index(x) < index(y))

\* C18: once heap.Init has run, and after every pop and push, no item of the
\* frontier precedes the root of the heap array by (comparator, then source
\* index), and no item left in the frontier precedes the element popped
\* last; this does not depend on the sources being sorted.
C18_HeapMinimum ==
    /\ pc \in {"loop", "yield", "refill", "done"} =>
        \A n \in 2..Len(items) : ~ItemBefore(items[n], items[1])
    /\ pc \in {"yield", "refill"} =>
        \A n \in 1..Len(items) : ~ItemBefore(items[n], cur[1])

\* Sources whose first elements were pulled out of order for the heap, after
\* a pop, a push and a second pop, with an item left in the frontier.
C18_Witness ==
    /\ pc = "yield" /\ Len(out) = 2 /\ Len(items) >= 1
    /\ pos[OutSource(api, out[1])] >= 2
    /\ \E i, j \in NonNil :
        /\ i < j
        /\ Len(seqs[i + 1].elems) > 0 /\ Len(seqs[j + 1].elems) > 0
        /\ OutCmp(api, RawElem(api, seqs[j + 1].elems[1]),
                       RawElem(api, seqs[i + 1].elems[1])) < 0

\* The pulls of source i so far, in the order they were made.
PullsOf(i) == SelectSeq(log, LAMBDA e : e.op = "pull" /\ e.src = i)

\* C19: every pull of a source either produces its next element or is the
\* one pull on which it reports exhaustion, after which it is not pulled
\* again; over a full drain a non-nil source of n elements is pulled n + 1
\* times and a nil source never.
C19_NothingRetried ==
    /\ \A i \in Indices(seqs) :
        /\ nexts[i] = Len(PullsOf(i))
        /\ nexts[i] - pos[i] \in {0, 1}
        /\ pos[i] = Cardinality({n \in 1..Len(PullsOf(i)) : PullsOf(i)[n].ok})
        /\ \A n \in 1..Len(PullsOf(i)) :
            ~PullsOf(i)[n].ok =>
                (n = Len(PullsOf(i)) /\ pos[i] = Len(seqs[i + 1].elems))
    /\ (FullDrain /\ AllFinite) =>
        \A i \in Indices(seqs) :
            nexts[i] = (IF i \in NonNil THEN Len(seqs[i + 1].elems) + 1 ELSE 0)

\* A full drain of a source of two elements, an empty source and a nil one.
C19_Witness ==
    /\ FullDrain /\ Len(out) >= 2
    /\ \E i \in NonNil : nexts[i] = 3
    /\ \E i \in NonNil : nexts[i] = 1
    /\ \E i \in Indices(seqs) : i \notin NonNil

\* Every non-nil source has answered its last pull with exhaustion.
AllExhausted ==
    \A i \in NonNil :
        /\ Len(PullsOf(i)) > 0
        /\ ~PullsOf(i)[Len(PullsOf(i))].ok
        /\ pos[i] = Len(seqs[i + 1].elems)

\* C20: with finite sources and a consumer that never stops, the iteration
\* comes to its end; it leaves the loop exactly when the frontier is empty,
\* and at that point every non-nil source has reported exhaustion.
C20_Termination ==
    /\ (~cmpNil /\ AllFinite /\ []~stopped) => <>FullDrain
    /\ []((FullDrain /\ AllFinite) => (items = <<>> /\ AllExhausted))
    /\ [][pc = "loop" => (pc' = "done" <=> Len(items) = 0)]_vars

\* The loop was left with the frontier empty after three elements of two
\* sources were received.
C20_Witness ==
    /\ FullDrain /\ ret = "mergeSeq" /\ items = <<>>
    /\ Len(out) >= 3 /\ Cardinality(Contributors) >= 2
    /\ AllExhausted

\* C29: an iteration of the returned sequence that begins after an earlier
\* one ended, stopped or drained, begins with an empty frontier, no handle
\* and every source at its first element; what it hands over is the start of
\* the full merge, all of the full merge if it is drained, and its handles
\* are its own, all released when it ends.
C29_IterationsIndependent ==
    earlier # "none" =>
        /\ (pc = "init" /\ initI = 0) =>
            /\ items = <<>> /\ opened = <<>>
            /\ \A i \in Indices(seqs) : pos[i] = 0 /\ nexts[i] = 0 /\ ~pulls[i]
        /\ (AllFinite /\ InputsSorted) => OutIsPrefix
        /\ (FullDrain /\ AllFinite /\ InputsSorted) => out = FullMerge(api, seqs)
        /\ (pc = "done" /\ ret = "mergeSeq") => AllReleased

\* After an iteration that the consumer stopped, another one was drained and
\* gave three elements or more of two sources or more.
C29_Witness ==
    /\ earlier = "stopped" /\ FullDrain
    /\ Len(out) >= 3 /\ Cardinality(Contributors) >= 2

\* The slots of the heap array.
Slots == 0..(Len(items) - 1)

\* C21: for the frontier members x, y in any two slots, Less holds iff the
\* caller's comparator puts x's value before y's, or reports them equal while
\* x's source index is the lower; members of different slots have different
\* source indices, and of Less(x, y) and Less(y, x) exactly one holds for
\* them, also when the comparator reports equality.
C21_LessRule ==
    \A i, j \in Slots :
        /\ Less(api, items, i, j) <=> ItemBefore(items[i + 1], items[j + 1])
        /\ i # j =>
            /\ index(items[i + 1]) # index(items[j + 1])
            /\ Less(api, items, i, j) <=> ~Less(api, items, j, i)

\* The frontier holds three members, two of which the comparator reports
\* equal and two of which it does not.
C21_Witness ==
    /\ pc = "loop" /\ Len(items) = 3
    /\ \E i, j \in Slots :
        i # j /\ OutCmp(api, unwrap(api, items[i + 1]), unwrap(api, items[j + 1])) = 0
    /\ \E i, j \in Slots :
        OutCmp(api, unwrap(api, items[i + 1]), unwrap(api, items[j + 1])) < 0

\* The argument list ss without the sources at the indices in D.
Without(ss, D) ==
    LET keep == {n \in 1..Len(ss) : (n - 1) \notin D}
    IN  [m \in 1..Cardinality(keep) |-> ss[Nth(keep, m)]]

\* The indices of the nil sources.
NilSources == Indices(seqs) \ NonNil

\* C22: a nil source is never pulled, gets no handle and no frontier slot
\* and hands over nothing; every element in the engine carries the index of
\* the argument position of its source, nil positions counted; a full drain
\* gives what the same call without the nil sources gives, so the order of
\* the other sources on ties is as before, and with one non-nil source it
\* gives that source.
C22_NilSkipped ==
    /\ \A i \in NilSources :
        /\ nexts[i] = 0 /\ pos[i] = 0 /\ ~pulls[i]
        /\ InFrontier(i) = 0 /\ ReceivedFrom(i) = 0
        /\ \A n \in 1..Len(opened) : opened[n] # i
        /\ \A n \in 1..Len(log) : log[n].src # i
    /\ \A n \in 1..Len(emitted) : index(emitted[n]) = OutSource(api, out[n])
    /\ \A n \in 1..Len(items) :
        /\ index(items[n]) \in NonNil
        /\ index(items[n]) = OutSource(api, unwrap(api, items[n]))
    /\ (FullDrain /\ AllFinite /\ InputsSorted) =>
        out = FullMerge(api, Without(seqs, NilSources))
    /\ (FullDrain /\ AllFinite /\ Cardinality(NonNil) = 1) =>
        out = AllElems(api, seqs)

\* A full drain of a nil source followed by two sources that tie on a key.
C22_Witness ==
    /\ FullDrain /\ Len(seqs) = 3 /\ seqs[1].nil
    /\ Contributors = {1, 2} /\ Len(out) >= 3
    /\ \E m, n \in 1..Len(out) :
        /\ m < n /\ OutCmp(api, out[m], out[n]) = 0
        /\ OutSource(api, out[m]) = 1 /\ OutSource(api, out[n]) = 2

\* The indices of the sources that are not nil and yield nothing.
EmptySources == {i \in NonNil : seqs[i + 1].elems = <<>> /\ ~seqs[i + 1].endless}

\* C23: a non-nil source that is exhausted on its first pull gets no
\* frontier slot and hands over nothing, is pulled that once and never
\* again, and a full drain gives what the same call without such sources
\* gives.
C23_EmptyContributesNothing ==
    /\ \A i \in EmptySources :
        /\ InFrontier(i) = 0 /\ ReceivedFrom(i) = 0 /\ pos[i] = 0
        /\ nexts[i] <= 1
        /\ Cardinality({n \in 1..Len(log) : log[n].src = i}) <= 1
        /\ pc \in {"loop", "yield", "refill", "done"} /\ ret = "mergeSeq" => nexts[i] = 1
    /\ (FullDrain /\ AllFinite /\ InputsSorted) =>
        out = FullMerge(api, Without(seqs, EmptySources))

\* A full drain of an empty source followed by two that hand over three
\* elements or more.
C23_Witness ==
    /\ FullDrain /\ Len(seqs) = 3 /\ EmptySources = {0}
    /\ Contributors = {1, 2} /\ Len(out) >= 3
    /\ nexts[0] = 1

\* What the consumer has received of source i, in the order received.
FromSource(i) == SelectSeq(out, LAMBDA x : OutSource(api, x) = i)

\* What the consumer has received of each source is the start of that
\* source, in the order of the source.
SourceOrderKept ==
    \A i \in Indices(seqs) :
        /\ Len(FromSource(i)) <= Len(seqs[i + 1].elems)
        /\ FromSource(i) =
            [p \in 1..Len(FromSource(i)) |-> RawElem(api, seqs[i + 1].elems[p])]

\* C24: for finite sources, sorted or not, the iteration never panics; if
\* the consumer never stops it comes to its end; a full drain hands over
\* every element exactly once; and the elements of one source are handed
\* over in the order of that source.
C24_UnsortedIsSafe ==
    /\ [](pc = "panicked" => (cmpNil /\ panic = "kway: nil comparison function"))
    /\ (~cmpNil /\ []~stopped) => <>FullDrain
    /\ [](FullDrain => BagOf(out) = BagOf(AllElems(api, seqs)))
    /\ []SourceOrderKept

\* A full drain of two sources, one of them not sorted, whose output is not
\* sorted either.
C24_Witness ==
    /\ FullDrain /\ Cardinality(Contributors) >= 2 /\ Len(out) >= 3
    /\ ~InputsSorted
    /\ \E n \in 1..(Len(out) - 1) : OutCmp(api, out[n], out[n + 1]) > 0

\* The tagged element x with the source index k in place of its own.
Retag(x, k) == [x EXCEPT !.i = k]

\* The element of its source that the frontier member x was made from: the
\* one its source produced last.
RawOf(x) == seqs[index(x) + 1].elems[pos[index(x)]]

\* C25: the adapted comparator of Merge gives for two tagged elements what
\* the caller's comparator gives for their values, and that of Merge2 what
\* the caller's gives for their pairs, whatever source indices the two carry.
C25_WrapCompareIgnoresIndex ==
    (pc = "loop" /\ AllFinite) =>
        \A m, n \in 1..Len(items) : \A k, l \in Indices(seqs) :
            IF api = "Merge"
            THEN wrapCompare(Retag(items[m], k), Retag(items[n], l)) =
                    cmpFunc(RawOf(items[m]), RawOf(items[n]))
            ELSE wrapCompare2(Retag(items[m], k), Retag(items[n], l)) =
                    cmpFunc2(RawOf(items[m]).value, RawOf(items[m]).seqID,
                             RawOf(items[n]).value, RawOf(items[n]).seqID)

\* The frontier of a Merge holds two elements the comparator calls equal and
\* one it does not.
C25_Witness ==
    /\ pc = "loop" /\ api = "Merge" /\ Len(items) = 3
    /\ \E m, n \in 1..3 : m # n /\ cmpFunc(RawOf(items[m]), RawOf(items[n])) = 0
    /\ \E m, n \in 1..3 : cmpFunc(RawOf(items[m]), RawOf(items[n])) < 0

\* The tagged element that stands for the element e of source i.
Tagged(a, i, e) ==
    IF a = "Merge" THEN [i |-> i, v |-> e]
    ELSE [i |-> i, v1 |-> e.value, v2 |-> e.seqID]

\* C26: the sequence wrapSeq(i, seq) / wrapSeq2(i, seq) yields for each
\* element of seq, in the order of seq, one element that carries i and the
\* value or pair unchanged; iterated to its end it yields as many as seq
\* has; when the consumer stops at the k-th, the first k were yielded and
\* seq has been advanced by k elements and no further.
C26_TaggingIsPureView ==
    LET i == WrapSource
        s == seqs[i + 1].elems
    IN  /\ Len(emitted) <= Len(s)
        /\ emitted = [p \in 1..Len(emitted) |-> Tagged(api, i, s[p])]
        /\ pos[i] - Len(emitted) = (IF pc = "wrapYield" THEN 1 ELSE 0)
        /\ (pc = "wrapDone" /\ ~stopped) => Len(emitted) = Len(s)
        /\ (pc = "wrapDone" /\ stopped) => pos[i] = Len(emitted)

\* The consumer of wrapSeq(1, seq) stopped at the second of three elements.
C26_Witness ==
    /\ pc = "wrapDone" /\ stopped /\ api = "Merge"
    /\ WrapSource = 1
    /\ Len(seqs[2].elems) = 3 /\ Len(emitted) = 2 /\ pos[1] = 2

\* The tagged element x carries the index of a source whose next was
\* recorded in pulls.
HandleRecorded(x) == index(x) \in Indices(seqs) /\ pulls[index(x)]

\* C27: every element in the frontier, and the element the refill is made
\* for, carries an index within the argument list at which pulls holds a
\* handle; the refill so never calls a nil entry of pulls nor reads outside
\* it, and the only panic is the one of the nil comparator check.
C27_HandleLookupValid ==
    /\ \A n \in 1..Len(items) : HandleRecorded(items[n])
    /\ pc \in {"yield", "refill"} => HandleRecorded(cur[1])
    /\ panic # "nil func call"
    /\ pc = "panicked" => cmpNil

\* A refill is due for the third source, after a nil and an empty one.
C27_Witness ==
    /\ pc = "refill" /\ Len(seqs) = 3
    /\ seqs[1].nil /\ ~seqs[2].nil /\ seqs[2].elems = <<>>
    /\ index(cur[1]) = 2 /\ Len(out) = 2

\* C28: every call of the comparator is on elements of two different
\* sources, so where it reports equality the source indices differ and
\* decide; with one non-nil source it is not called at all.
C28_ComparesDistinctSources ==
    /\ \A c \in stepCalls : c[1] # c[2]
    /\ Cardinality(NonNil) <= 1 => stepCalls = {}

\* heap.Init is due on three first elements, two of which tie, and calls the
\* comparator on two pairs of them.
C28_Witness ==
    /\ pc = "init" /\ initI = Len(seqs) /\ Len(items) = 3
    /\ Cardinality(stepCalls) >= 2
    /\ \E m, n \in 1..3 :
        m # n /\ OutCmp(api, unwrap(api, items[m]), unwrap(api, items[n])) = 0

\* The tagged elements the sources of this call can produce.
AllTagged ==
    UNION {{wrappedSeqs(api, seqs)[n].elems[p] :
                p \in 1..Len(wrappedSeqs(api, seqs)[n].elems)} : n \in 1..Len(seqs)}

\* C30: on every items array the engine reaches, Push of an element gives
\* the array with that element added at its end; Pop gives the last item,
\* the array shorter by that one slot, and leaves nil in the slot; Swap of
\* two slots exchanges their items and changes no other slot.
C30_HeapPrimitives ==
    /\ \A x \in AllTagged :
        /\ Len(Push(items, x)) = Len(items) + 1
        /\ Push(items, x)[Len(items) + 1] = x
        /\ \A n \in 1..Len(items) : Push(items, x)[n] = items[n]
    /\ Len(items) > 0 =>
        /\ Pop(items).item = items[Len(items)]
        /\ Len(Pop(items).items) = Len(items) - 1
        /\ \A n \in 1..(Len(items) - 1) : Pop(items).items[n] = items[n]
        /\ Len(Pop(items).old) = Len(items)
        /\ Pop(items).old[Len(items)] = NilItem
        /\ \A n \in 1..(Len(items) - 1) : Pop(items).old[n] = items[n]
    /\ \A i, j \in Slots :
        /\ Len(Swap(items, i, j)) = Len(items)
        /\ Swap(items, i, j)[i + 1] = items[j + 1]
        /\ Swap(items, i, j)[j + 1] = items[i + 1]
        /\ \A k \in Slots \ {i, j} : Swap(items, i, j)[k + 1] = items[k + 1]

\* heap.Pop has taken an element off a frontier of two and heap.Push is due
\* for the next element of its source.
C30_Witness ==
    /\ pc = "refill" /\ Len(items) = 1
    /\ pos[index(cur[1])] < Len(seqs[index(cur[1]) + 1].elems)

====
